---- MODULE Spec2Model ----
(***************************************************************************)
(* Carpooling: the booking coordination core.                              *)
(*                                                                         *)
(* The store is the Postgres schema of supabase/migrations (tables rides,  *)
(* ride_requests, notifications with their CHECK / UNIQUE / FOREIGN KEY    *)
(* constraints, row level security policies and AFTER triggers).  The      *)
(* clients are the React components.  A component keeps the list its last  *)
(* fetch returned and replaces it only at its own next fetch, so a row of  *)
(* an earlier result stays on screen, and clickable, on a client that has  *)
(* not fetched since (another tab, another device, a fetch still in        *)
(* flight).  For every user and component the model keeps the rows that    *)
(* are on some list the user's clients hold and carry a button; a click    *)
(* takes any of them.                                                      *)
(* A statement with its triggers is one transaction, hence one step.       *)
(***************************************************************************)
EXTENDS Integers, Sequences, FiniteSets, Bags, TLC

\* ------------------------------------------------------------------ bounds
MaxRides == 1
MaxRequests == 2
MaxSeats == 1
MaxPassengers == 2
MaxRatedRides == 3
MaxRatings == 3
MaxTime == 1
MaxFetches == 3
MaxDriverFetches == 1
MaxStatusUpdates == 2
MaxListedRides == 2
MaxPolled == 11

\* auth.users: the signed-in accounts
Users == {"u1", "u2", "u3"}

\* the scores a rating form offers
Scores == {4, 5}

\* the prices per seat entered in the Create Ride form
Prices == {0}

\* the places and the date entered in the Create Ride form
Origins == {"Ikeja"}
Destinations == {"Lekki"}
Dates == {"2025-09-01"}

\* a text column: the sequence of its characters; NULL
Null == <<"NULL">>

\* the account whose client is followed request by request: the lists of
\* the other clients are fetched the same way and do not interact with it
Viewer == "u2"

\* a realtime channel of the followed client: not subscribed; subscribed
\* with no change event reaching it; subscribed with the events arriving
ChannelStates == {"closed", "mute", "live"}

\* ------------------------------------------------------------ the schema
RideStatuses == {"active", "completed", "cancelled"}
RequestStatuses == {"pending", "accepted", "rejected", "cancelled"}
NotificationTypes ==
    {"ride_request", "request_accepted", "request_rejected",
     "ride_started", "ride_completed", "new_message"}
AvailabilityStatuses == {"online", "offline", "busy"}

VARIABLES
    rides,          \* table rides, in insertion order; a row's id is its index
    ride_requests,  \* table ride_requests, in insertion order; id = index
    notifications,  \* table notifications, in insertion order (created_at)
    searchRides,    \* SearchRides: rows of state `rides` on the user's clients
    testRides,      \* TestBookingFlow: rows of state `testRides`
    rideRequests,   \* NotificationCenter: rows of state `rideRequests`
    bookings,       \* MyBookings: rows of state `bookings` with a Cancel button
    myRides,        \* MyRides: rows of state `rides` with status buttons
    lastCall,       \* the handler that ran last, its arguments and its error
    ratings,        \* table ratings: the committed rows
    profiles,       \* table profiles: total_rating (in hundredths), rating_count
    notificationCards, \* NotificationCenter: unread cards of state `notifications`
    tx,             \* per session: the INSERT INTO ratings still in flight
    presence,       \* table profiles: availability_status and last_seen
    profileTexts,   \* table profiles: username, phone_number and bio
    now,            \* the clock
    driversFetch,   \* DriverAvailabilityList of Viewer: the calls of fetchDrivers
                    \* under way, in the order of the calls
    drivers,        \* DriverAvailabilityList of Viewer: state `drivers`
    driversLoading, \* DriverAvailabilityList of Viewer: state `loading`
    driversChannel, \* DriverAvailabilityList of Viewer: "closed", "mute" or
                    \* "live", as `channel` below, for the events of profiles
    statusUpdates,  \* the calls of updateAvailabilityStatus whose UPDATE has
                    \* been sent and not answered: a bag of the rows sent,
                    \* each with `list`: the call was made on the list the
                    \* followed client has mounted
    channel,        \* MyBookings of Viewer: "closed" (not open), "mute" (open,
                    \* no change event reaches it) or "live" (open, events arrive)
    bookingsFetches, \* MyBookings of Viewer: the calls of updateBookingStatus
                    \* and of fetchMyBookings under way
    bookingsHeld    \* MyBookings of Viewer: state `bookings`

dbvars == <<rides, ride_requests, notifications>>
viewvars == <<searchRides, testRides, rideRequests, bookings, myRides>>
ratingvars == <<ratings, profiles, tx>>
presencevars == <<presence, profileTexts, now, driversFetch, drivers,
                  driversLoading, driversChannel, statusUpdates>>
clientvars == <<channel, bookingsFetches, bookingsHeld>>
vars == <<rides, ride_requests, notifications, searchRides, testRides,
          rideRequests, bookings, myRides, lastCall, ratings, profiles,
          notificationCards, tx, presence, profileTexts, now, driversFetch,
          drivers, driversLoading, driversChannel, statusUpdates, channel,
          bookingsFetches, bookingsHeld>>

NoError == "none"

\* a session with no statement in flight
NoTx == [phase |-> "idle"]

\* ------------------------------------------------------- table: rides
\* variant: the rides table without its CHECK constraints
RideRowAny(row) == TRUE

\* CHECK (available_seats > 0), CHECK (price_per_seat >= 0),
\* CHECK (status IN ...)
RideRowOK(row) ==
    /\ row.available_seats > 0
    /\ row.price_per_seat >= 0
    /\ row.status \in RideStatuses

\* policy "Drivers can manage their own rides" FOR ALL USING (auth.uid() = driver_id)
RidePolicy(uid, row) == uid = row.driver_id

\* INSERT INTO rides by uid
InsertRide(uid, row) ==
    IF ~RidePolicy(uid, row)
    THEN [error |-> "rls_violation", rides |-> rides]
    ELSE IF ~RideRowOK(row)
    THEN [error |-> "check_violation", rides |-> rides]
    ELSE [error |-> NoError, rides |-> Append(rides, row)]

\* ----------------------------------------------- table: notifications
\* variant: the notifications table without the CHECK on type
NotificationRowAny(row) == TRUE

\* CHECK (type IN (...)) of the notifications table
NotificationRowOK(row) == row.type \in NotificationTypes

\* INSERT INTO notifications from a SECURITY DEFINER trigger
InsertNotification(notifs, row) ==
    IF NotificationRowOK(row)
    THEN [error |-> NoError, notifications |-> Append(notifs, row)]
    ELSE [error |-> "check_violation", notifications |-> notifs]

\* ------------------------------------------------ table: rides (update)
\* variant: the trigger tells the driver that the ride is completed
handle_ride_completion_notifying(rideId, old_row, new_row, reqs, notifs) ==
    IF new_row.status = "completed" /\ old_row.status # "completed"
    THEN [error |-> NoError,
          ride_requests |-> reqs,
          notifications |-> Append(notifs,
             [user_id |-> new_row.driver_id,
              type    |-> "ride_completed",
              title   |-> "Ride Completed",
              message |-> "Your ride from " \o new_row.origin \o " to "
                          \o new_row.destination \o " is completed",
              ride_id |-> rideId,
              is_read |-> FALSE])]
    ELSE [error |-> NoError, ride_requests |-> reqs, notifications |-> notifs]

\* variant: the trigger cancels the open requests of a ride that is
\* cancelled or completed
handle_ride_completion_cascading(rideId, old_row, new_row, reqs, notifs) ==
    IF new_row.status # old_row.status
    THEN [error |-> NoError,
          ride_requests |-> [i \in DOMAIN reqs |->
              IF reqs[i].ride_id = rideId /\ reqs[i].status \in {"pending", "accepted"}
              THEN [reqs[i] EXCEPT !.status = "cancelled"]
              ELSE reqs[i]],
          notifications |-> notifs]
    ELSE [error |-> NoError, ride_requests |-> reqs, notifications |-> notifs]

\* trigger on_ride_completion (AFTER UPDATE ON rides): it writes to the
\* server log, on every update and again when the status turns completed,
\* and to no table: the requests reqs and the notifications notifs of the
\* store stay as they are
handle_ride_completion(rideId, old_row, new_row, reqs, notifs) ==
    IF new_row.status = "completed" /\ old_row.status # "completed"
    THEN [error |-> NoError, ride_requests |-> reqs, notifications |-> notifs]
    ELSE [error |-> NoError, ride_requests |-> reqs, notifications |-> notifs]

\* UPDATE rides SET status = s WHERE id = rideId, by uid, on a store whose
\* table ride_requests is reqs: the three tables as the statement and its
\* trigger leave them.  A row the policy hides is not updated; the
\* statement still succeeds.
UpdateRideWith(reqs, uid, rideId, s) ==
    IF ~(rideId \in DOMAIN rides /\ RidePolicy(uid, rides[rideId]))
    THEN [error |-> NoError, rides |-> rides, ride_requests |-> reqs,
          notifications |-> notifications]
    ELSE LET old_row == rides[rideId]
             new_row == [old_row EXCEPT !.status = s]
             trig == handle_ride_completion(rideId, old_row, new_row, reqs,
                                            notifications)
         IN  IF ~RideRowOK(new_row)
             THEN [error |-> "check_violation", rides |-> rides,
                   ride_requests |-> reqs, notifications |-> notifications]
             ELSE IF trig.error # NoError
             THEN [error |-> trig.error, rides |-> rides,
                   ride_requests |-> reqs, notifications |-> notifications]
             ELSE [error |-> NoError,
                   rides |-> [rides EXCEPT ![rideId] = new_row],
                   ride_requests |-> trig.ride_requests,
                   notifications |-> trig.notifications]

\* the statement on the store as it is
UpdateRide(uid, rideId, s) == UpdateRideWith(ride_requests, uid, rideId, s)

\* ----------------------------------------------- table: ride_requests
\* CHECK (number_of_passengers > 0), CHECK (status IN ...)
RequestRowOK(row) ==
    /\ row.number_of_passengers > 0
    /\ row.status \in RequestStatuses

\* policy "Passengers can create requests" WITH CHECK (auth.uid() = passenger_id)
RequestInsertPolicy(uid, row) == uid = row.passenger_id

\* policies "Passengers can update their own requests" and
\* "Drivers can update requests for their rides" (permissive, OR-ed)
RequestUpdatePolicy(uid, row) ==
    \/ uid = row.passenger_id
    \/ uid \in {rides[r].driver_id : r \in {x \in DOMAIN rides : x = row.ride_id}}

\* variant: the ride_requests table without its UNIQUE constraint
RequestNotUnique(reqs, row) == TRUE

\* UNIQUE(ride_id, passenger_id)
RequestUnique(reqs, row) ==
    \A i \in DOMAIN reqs :
        ~(reqs[i].ride_id = row.ride_id /\ reqs[i].passenger_id = row.passenger_id)

\* variant: the trigger writes no notification
handle_new_ride_request_silent(new_row, notifs) ==
    [error |-> NoError, notifications |-> notifs]

\* variant: the trigger addresses the notification to the passenger
handle_new_ride_request_to_passenger(new_row, notifs) ==
    LET ride_info == rides[new_row.ride_id]
    IN  InsertNotification(notifs,
            [user_id |-> new_row.passenger_id,
             type    |-> "ride_request",
             title   |-> "New Ride Request",
             message |-> "You have a new ride request from " \o ride_info.origin
                         \o " to " \o ride_info.destination
                         \o " on " \o ride_info.departure_date,
             ride_id |-> new_row.ride_id,
             is_read |-> FALSE])

\* trigger on_ride_request_created: one notification for the ride's
\* driver, its message put together from the ride's row
handle_new_ride_request(new_row, notifs) ==
    LET ride_info == rides[new_row.ride_id]
    IN  InsertNotification(notifs,
            [user_id |-> ride_info.driver_id,
             type    |-> "ride_request",
             title   |-> "New Ride Request",
             message |-> "You have a new ride request from " \o ride_info.origin
                         \o " to " \o ride_info.destination
                         \o " on " \o ride_info.departure_date,
             ride_id |-> new_row.ride_id,
             is_read |-> FALSE])

\* variant: the trigger uses the type names the notifications table declares
handle_ride_request_status_update_declared(old_row, new_row, notifs) ==
    LET ride_info == rides[new_row.ride_id]
    IN  IF new_row.status # old_row.status /\ new_row.status \in {"accepted", "rejected"}
        THEN InsertNotification(notifs,
                 [user_id |-> new_row.passenger_id,
                  type    |-> IF new_row.status = "accepted"
                              THEN "request_accepted" ELSE "request_rejected",
                  title   |-> IF new_row.status = "accepted"
                              THEN "Ride Request Accepted!" ELSE "Ride Request Declined",
                  message |-> "Your ride request from " \o ride_info.origin
                              \o " to " \o ride_info.destination
                              \o (IF new_row.status = "accepted"
                                  THEN " has been accepted" ELSE " has been declined"),
                  ride_id |-> new_row.ride_id,
                  is_read |-> FALSE])
        ELSE [error |-> NoError, notifications |-> notifs]

\* variant: the trigger also tells the driver when a request is cancelled
handle_ride_request_status_update_cancelled(old_row, new_row, notifs) ==
    IF new_row.status # old_row.status /\ new_row.status = "cancelled"
    THEN InsertNotification(notifs,
             [user_id |-> rides[new_row.ride_id].driver_id,
              type    |-> "new_message",
              title   |-> "Ride Request Cancelled",
              message |-> "A ride request from " \o rides[new_row.ride_id].origin
                          \o " to " \o rides[new_row.ride_id].destination
                          \o " has been cancelled",
              ride_id |-> new_row.ride_id,
              is_read |-> FALSE])
    ELSE [error |-> NoError, notifications |-> notifs]

\* trigger on_ride_request_status_updated
handle_ride_request_status_update(old_row, new_row, notifs) ==
    LET ride_info == rides[new_row.ride_id]
    IN  IF new_row.status # old_row.status
        THEN IF new_row.status = "accepted"
             THEN InsertNotification(notifs,
                      [user_id |-> new_row.passenger_id,
                       type    |-> "ride_request_accepted",
                       title   |-> "Ride Request Accepted!",
                       message |-> "Your ride request from " \o ride_info.origin
                                   \o " to " \o ride_info.destination
                                   \o " has been accepted",
                       ride_id |-> new_row.ride_id,
                       is_read |-> FALSE])
             ELSE IF new_row.status = "rejected"
             THEN InsertNotification(notifs,
                      [user_id |-> new_row.passenger_id,
                       type    |-> "ride_request_rejected",
                       title   |-> "Ride Request Declined",
                       message |-> "Your ride request from " \o ride_info.origin
                                   \o " to " \o ride_info.destination
                                   \o " has been declined",
                       ride_id |-> new_row.ride_id,
                       is_read |-> FALSE])
             ELSE [error |-> NoError, notifications |-> notifs]
        ELSE [error |-> NoError, notifications |-> notifs]

\* the outcome of a statement on ride_requests: the transaction's error and
\* the two tables as the transaction leaves them
Aborted(err) ==
    [error |-> err, ride_requests |-> ride_requests, notifications |-> notifications]

\* variant: an error raised by the trigger does not undo the row change
CommittedWithoutRollback(reqs, trig) ==
    [error |-> trig.error, ride_requests |-> reqs, notifications |-> trig.notifications]

\* the row is written and the AFTER trigger has run: an error raised by
\* the trigger aborts the statement, the row change included
Committed(reqs, trig) ==
    IF trig.error # NoError
    THEN Aborted(trig.error)
    ELSE [error |-> NoError, ride_requests |-> reqs, notifications |-> trig.notifications]

\* INSERT INTO ride_requests by uid
InsertRideRequest(uid, row) ==
    IF ~RequestInsertPolicy(uid, row) THEN Aborted("rls_violation")
    ELSE IF ~RequestRowOK(row) THEN Aborted("check_violation")
    ELSE IF row.ride_id \notin DOMAIN rides THEN Aborted("foreign_key_violation")
    ELSE IF ~RequestUnique(ride_requests, row) THEN Aborted("unique_violation")
    ELSE Committed(Append(ride_requests, row),
                   handle_new_ride_request(row, notifications))

\* UPDATE ride_requests SET status = s WHERE id = requestId, by uid
UpdateRideRequest(uid, requestId, s) ==
    IF ~(requestId \in DOMAIN ride_requests
         /\ RequestUpdatePolicy(uid, ride_requests[requestId]))
    THEN Aborted(NoError)
    ELSE LET old_row == ride_requests[requestId]
             new_row == [old_row EXCEPT !.status = s]
         IN  IF ~RequestRowOK(new_row) THEN Aborted("check_violation")
             ELSE Committed([ride_requests EXCEPT ![requestId] = new_row],
                            handle_ride_request_status_update(old_row, new_row, notifications))

\* --------------------------------------- table: notifications (update)
\* policy "Users can update their own notifications" USING (auth.uid() = user_id)
NotificationUpdatePolicy(uid, row) == uid = row.user_id

\* variant: the statement flips the flag instead of setting it
UpdateNotificationFlip(uid, notificationId) ==
    IF ~(notificationId \in DOMAIN notifications
         /\ NotificationUpdatePolicy(uid, notifications[notificationId]))
    THEN [error |-> NoError, notifications |-> notifications]
    ELSE [error |-> NoError,
          notifications |-> [notifications EXCEPT
              ![notificationId].is_read = ~notifications[notificationId].is_read]]

\* variant: the statement has no filter on the id
UpdateNotificationAll(uid, notificationId) ==
    [error |-> NoError,
     notifications |-> [k \in DOMAIN notifications |->
         IF NotificationUpdatePolicy(uid, notifications[k])
         THEN [notifications[k] EXCEPT !.is_read = TRUE]
         ELSE notifications[k]]]

\* UPDATE notifications SET is_read = true WHERE id = notificationId, by
\* uid.  A row the policy hides is not updated; the statement succeeds.
UpdateNotification(uid, notificationId) ==
    IF ~(notificationId \in DOMAIN notifications
         /\ NotificationUpdatePolicy(uid, notifications[notificationId]))
    THEN [error |-> NoError, notifications |-> notifications]
    ELSE [error |-> NoError,
          notifications |-> [notifications EXCEPT ![notificationId].is_read = TRUE]]

\* ------------------------------------------ tables: ratings, profiles
\* CHECK (rating >= 1 AND rating <= 5)
MinRating == 1
MaxRating == 5

RatingRowOK(row) == row.rating >= MinRating /\ row.rating <= MaxRating

\* variant: the policy asks only that the caller is the rater
RatingInsertPolicyRaterOnly(uid, row) == uid = row.rater_id

\* policy "Users can create ratings for completed rides they participated
\* in" WITH CHECK (...)
RatingInsertPolicy(uid, row) ==
    /\ uid = row.rater_id
    /\ \E r \in DOMAIN rides :
           /\ r = row.ride_id
           /\ rides[r].status = "completed"
           /\ \/ rides[r].driver_id = uid
              \/ \E i \in DOMAIN ride_requests :
                     /\ ride_requests[i].ride_id = r
                     /\ ride_requests[i].passenger_id = uid
                     /\ ride_requests[i].status = "accepted"

\* variant: the ratings table without its UNIQUE constraint
RatingNotUnique(rs, row) == TRUE

\* UNIQUE(ride_id, rater_id, rated_user_id)
RatingUnique(rs, row) ==
    \A x \in rs : ~(/\ x.ride_id = row.ride_id
                    /\ x.rater_id = row.rater_id
                    /\ x.rated_user_id = row.rated_user_id)

\* the rows of rs WHERE rated_user_id = user
RatingsOf(rs, user) == {x \in rs : x.rated_user_id = user}

RECURSIVE SumOfRatings(_)
\* SUM(rating) over a set of rows
SumOfRatings(rs) ==
    IF rs = {} THEN 0
    ELSE LET x == CHOOSE y \in rs : TRUE
         IN  x.rating + SumOfRatings(rs \ {x})

\* a quotient num / den stored in a DECIMAL(3,2) column, as the number of
\* hundredths: numeric rounds to the nearest hundredth, ties away from zero
Decimal_3_2(num, den) == (200 * num + den) \div (2 * den)

\* COALESCE(AVG(rating), 0) over a set of rows, as stored in total_rating
AvgRating(rs) ==
    IF rs = {} THEN 0 ELSE Decimal_3_2(SumOfRatings(rs), Cardinality(rs))

\* variant: the trigger runs before the row is in the table
update_user_rating_before(new_row, rs, profs) ==
    [profs EXCEPT ![new_row.rated_user_id] =
        [total_rating |-> AvgRating(RatingsOf(rs \ {new_row}, new_row.rated_user_id)),
         rating_count |-> Cardinality(RatingsOf(rs \ {new_row}, new_row.rated_user_id))]]

\* trigger update_user_rating_trigger (AFTER INSERT ON ratings): the rated
\* user's profile gets AVG and COUNT over the ratings rs the statement sees
update_user_rating(new_row, rs, profs) ==
    [profs EXCEPT ![new_row.rated_user_id] =
        [total_rating |-> AvgRating(RatingsOf(rs, new_row.rated_user_id)),
         rating_count |-> Cardinality(RatingsOf(rs, new_row.rated_user_id))]]

\* the outcome of a statement on ratings that ends in an error
RatingAborted(err) ==
    [error |-> err, ratings |-> ratings, profiles |-> profiles]

\* INSERT INTO ratings by uid, run to its commit with no other statement
\* in between
InsertRating(uid, row) ==
    IF ~RatingInsertPolicy(uid, row) THEN RatingAborted("rls_violation")
    ELSE IF ~RatingRowOK(row) THEN RatingAborted("check_violation")
    ELSE IF ~RatingUnique(ratings, row) THEN RatingAborted("unique_violation")
    ELSE [error |-> NoError,
          ratings |-> ratings \cup {row},
          profiles |-> update_user_rating(row, ratings \cup {row}, profiles)]

\* ------------------------------------------- table: profiles (presence)
\* CHECK (availability_status IN ('online', 'offline', 'busy'))
PresenceRowOK(row) == row.availability_status \in AvailabilityStatuses

\* policy "Users can update their own profile" USING (auth.uid() = user_id)
ProfileUpdatePolicy(uid, user_id) == uid = user_id

\* variant: the statement has no filter and the table no policy
UpdatePresenceOfAll(uid, user_id, status, at) ==
    [error |-> NoError,
     presence |-> [x \in Users |-> [availability_status |-> status, last_seen |-> at]]]

\* UPDATE profiles SET availability_status = status, last_seen = at
\* WHERE user_id = user_id, by uid.  A row the policy hides is not updated.
UpdatePresence(uid, user_id, status, at) ==
    LET new_row == [availability_status |-> status, last_seen |-> at]
    IN  IF ~(user_id \in Users /\ ProfileUpdatePolicy(uid, user_id))
        THEN [error |-> NoError, presence |-> presence]
        ELSE IF ~PresenceRowOK(new_row)
        THEN [error |-> "check_violation", presence |-> presence]
        ELSE [error |-> NoError, presence |-> [presence EXCEPT ![user_id] = new_row]]

\* ------------------------------------------- table: profiles (texts)
\* String.prototype.trim on a text: the white space at both ends is
\* dropped (of the white-space characters the texts here hold the blank)
RECURSIVE trimStart(_)
trimStart(text) ==
    IF text # <<>> /\ Head(text) = " " THEN trimStart(Tail(text)) ELSE text

RECURSIVE trimEnd(_)
trimEnd(text) ==
    IF text # <<>> /\ text[Len(text)] = " "
    THEN trimEnd(SubSeq(text, 1, Len(text) - 1))
    ELSE text

trim(text) == trimEnd(trimStart(text))

\* value || null
OrNull(text) == IF text = <<>> THEN Null ELSE text

\* username TEXT NOT NULL UNIQUE: no other row has the username
UsernameUnique(texts, user_id, username) ==
    \A v \in Users \ {user_id} : texts[v].username # username

\* UPDATE profiles SET username, phone_number, bio WHERE user_id = user_id,
\* by uid.  A row the policy hides is not updated.  `rows`: the rows the
\* statement has written, each a change of the table.
UpdateProfile(uid, user_id, new_row) ==
    IF ~(user_id \in Users /\ ProfileUpdatePolicy(uid, user_id))
    THEN [error |-> NoError, rows |-> {}, profileTexts |-> profileTexts]
    ELSE IF ~UsernameUnique(profileTexts, user_id, new_row.username)
    THEN [error |-> "unique_violation", rows |-> {}, profileTexts |-> profileTexts]
    ELSE [error |-> NoError, rows |-> {user_id},
          profileTexts |-> [profileTexts EXCEPT ![user_id] = new_row]]

\* ------------------------------------------------------------ the queries
\* handleSearch: rides with status = 'active' and available_seats >= passengers
SearchResult(rs, passengers) ==
    {r \in DOMAIN rs : rs[r].status = "active" /\ rs[r].available_seats >= passengers}

\* LIMIT n without ORDER BY: any n of the rows, all of them when fewer
AnyRows(all, n) ==
    {S \in SUBSET all : Cardinality(S) = IF Cardinality(all) < n THEN Cardinality(all) ELSE n}

\* variant: the query without its filter on the driver
OtherUsersRidesOwnIncluded(rs, u) ==
    AnyRows({r \in DOMAIN rs : /\ rs[r].status = "active"
                               /\ rs[r].available_seats >= 1}, 3)

\* fetchOtherUsersRides: active rides with a seat, of other drivers,
\* limit 3 in no stated order: the results the store may give
OtherUsersRides(rs, u) ==
    AnyRows({r \in DOMAIN rs : /\ rs[r].status = "active"
                               /\ rs[r].available_seats >= 1
                               /\ rs[r].driver_id # u}, 3)

\* fetchPendingRideRequests: pending requests joined (inner) with the rides
\* the user drives
PendingRideRequests(rs, reqs, u) ==
    {i \in DOMAIN reqs : /\ reqs[i].status = "pending"
                         /\ reqs[i].ride_id \in DOMAIN rs
                         /\ rs[reqs[i].ride_id].driver_id = u}

\* fetchMyBookings: the user's requests, each with its ride (status)
MyBookingsOf(rs, reqs, u) ==
    {[id |-> i, status |-> reqs[i].status, ride_status |-> rs[reqs[i].ride_id].status] :
        i \in {j \in DOMAIN reqs : reqs[j].passenger_id = u /\ reqs[j].ride_id \in DOMAIN rs}}

\* the foreign keys of the migrations between tables of schema public:
\* what a select can embed
ForeignKeys ==
    {[table |-> "rides", column |-> "driver_id", references |-> "profiles"],
     [table |-> "ride_requests", column |-> "ride_id", references |-> "rides"],
     [table |-> "ratings", column |-> "ride_id", references |-> "rides"],
     [table |-> "notifications", column |-> "ride_id", references |-> "rides"]}

\* variant: ride_requests.passenger_id references profiles as well
ForeignKeysWithPassengerProfile ==
    ForeignKeys \cup {[table |-> "ride_requests", column |-> "passenger_id",
                       references |-> "profiles"]}

\* fetchMyRides: the rides the user drives, each with its requests and,
\* through passenger_id, the profile of each passenger.  The request fails
\* when the schema has no such relationship: setRides is not reached and
\* the list stays as it is.
MyRidesOf(rs, u) ==
    IF [table |-> "ride_requests", column |-> "passenger_id", references |-> "profiles"]
           \in ForeignKeys
    THEN {[id |-> r, status |-> rs[r].status] : r \in {x \in DOMAIN rs : rs[x].driver_id = u}}
    ELSE {}

\* fetchNotifications: the user's notifications, newest first, limit 10
NotificationLimit == 10

\* variant: the query also filters on is_read = false and has no limit
NotificationsOfUnread(notifs, u) ==
    {k \in DOMAIN notifs : notifs[k].user_id = u /\ ~notifs[k].is_read}

NotificationsOf(notifs, u) ==
    LET all == {k \in DOMAIN notifs : notifs[k].user_id = u}
    IN  {k \in all : Cardinality({x \in all : x > k}) < NotificationLimit}

\* .order('created_at', { ascending: false }): the ids, the newest first
RECURSIVE NewestFirst(_)
NewestFirst(ids) ==
    IF ids = {} THEN <<>>
    ELSE LET newest == CHOOSE k \in ids : \A x \in ids : x <= k
         IN  <<newest>> \o NewestFirst(ids \ {newest})

\* fetchNotifications: what setNotifications and setUnreadCount receive
fetchNotifications(notifs, u) ==
    LET data == NewestFirst(NotificationsOf(notifs, u))
    IN  [notifications |-> data,
         unreadCount |-> Cardinality({i \in DOMAIN data : ~notifs[data[i]].is_read})]

\* fetchDrivers, first read: the driver_id of every active ride
ActiveDriverIds(rs) == {rs[r].driver_id : r \in {x \in DOMAIN rs : rs[x].status = "active"}}

\* fetchDrivers, second read: the profiles with user_id in ids
ProfilesIn(pres, ids) ==
    {[user_id |-> d, availability_status |-> pres[d].availability_status] :
        d \in ids \cap Users}

\* fetchDrivers, third read: count of the driver's active rides
ActiveRidesCount(rs, d) ==
    Cardinality({r \in DOMAIN rs : rs[r].driver_id = d /\ rs[r].status = "active"})

\* canCancelBooking, on a row of the list the client holds
canCancelBooking(booking) ==
    /\ booking.status \in {"pending", "accepted"}
    /\ booking.ride_status = "active"

\* MyRides renders the status buttons of a row when ride.status === 'active'
canChangeRideStatus(ride) == ride.status = "active"

\* The rows a user can still click.  searchRides[u], testRides[u], ... are
\* not the list of one client at one moment: they hold every row that a
\* select of one of u's clients can have put on a screen so far.  Each of
\* these lists is filled by one select, answered from one state of the
\* store, and a client can send it at any time (mount, button, signal), so
\* with a statement that leaves the store as (rs, reqs) the rows of the
\* selects answered from that state join the sets.  The calls of the one
\* client that is followed step by step are fetchMyBookings and
\* fetchDrivers below.
Views(rs, reqs) ==
    /\ searchRides' = [u \in Users |->
           searchRides[u] \cup UNION {SearchResult(rs, n) : n \in 1..MaxPassengers}]
    /\ testRides' = [u \in Users |-> testRides[u] \cup UNION OtherUsersRides(rs, u)]
    /\ rideRequests' = [u \in Users |-> rideRequests[u] \cup PendingRideRequests(rs, reqs, u)]
    /\ bookings' = [u \in Users |->
           bookings[u] \cup {b \in MyBookingsOf(rs, reqs, u) : canCancelBooking(b)}]
    /\ myRides' = [u \in Users |->
           myRides[u] \cup {r \in MyRidesOf(rs, u) : canChangeRideStatus(r)}]
    /\ notificationCards' = [u \in Users |->
           notificationCards[u]
           \cup {k \in NotificationsOf(notifications', u) : ~notifications'[k].is_read}]

\* the rows for which a statement on ride_requests emits a change event:
\* the row a committed INSERT has added, the row a committed UPDATE has
\* matched, whether or not its values differ from the old ones
InsertedRequests(res) ==
    IF res.error = NoError THEN DOMAIN res.ride_requests \ DOMAIN ride_requests ELSE {}

UpdatedRequests(uid, requestId, res) ==
    IF res.error = NoError
    THEN {i \in DOMAIN ride_requests :
             i = requestId /\ RequestUpdatePolicy(uid, ride_requests[i])}
    ELSE {}

\* the channel of MyBookings: a change of a ride_requests row whose
\* passenger_id is the subscriber's
BookingsSignal(reqs, written) ==
    \E i \in written : reqs[i].passenger_id = Viewer

\* a call of fetchMyBookings or of fetchDrivers whose first request has
\* not been answered
Called == [phase |-> "called", data |-> {}, rest |-> {}]

\* fetchMyBookings of the followed client, with the calls `underway`, is
\* called by the component itself when `own` (its mount, its handler) and
\* once more by the channel when `signal`; each call sends its select,
\* answered later (fetchMyBookings_read)
fetchMyBookings(underway, own, signal) ==
    /\ bookingsFetches' =
           underway
           \o (IF own THEN <<Called>> ELSE <<>>)
           \o (IF channel = "live" /\ signal THEN <<Called>> ELSE <<>>)
    /\ Len(bookingsFetches') <= MaxFetches
    /\ UNCHANGED bookingsHeld

\* after a statement has left the store as (rs, reqs) and emitted a change
\* event for each row of ride_requests in `written`: the rows that can be
\* on a screen from now on, and the call of fetchMyBookings the event
\* starts on the followed client
Refetch(rs, reqs, written) ==
    /\ Views(rs, reqs)
    /\ fetchMyBookings(bookingsFetches, FALSE, BookingsSignal(reqs, written))
    /\ UNCHANGED channel

Call(op, id, status, err) ==
    [op |-> op, id |-> id, status |-> status, error |-> err]

\* ------------------------------------------------------------ the handlers
\* the Create Ride form as it is submitted
RideForms ==
    [origin : Origins, destination : Destinations, departure_date : Dates,
     available_seats : 1..MaxSeats, price_per_seat : Prices]

\* CreateRide.handleSubmit; status is the column's DEFAULT 'active'
handleSubmit(u, formData) ==
    LET res == InsertRide(u, [driver_id |-> u,
                              origin |-> formData.origin,
                              destination |-> formData.destination,
                              departure_date |-> formData.departure_date,
                              available_seats |-> formData.available_seats,
                              price_per_seat |-> formData.price_per_seat,
                              status |-> "active"])
    IN  /\ rides' = res.rides
        /\ lastCall' = Call("handleSubmit", Len(res.rides), "", res.error)
        /\ UNCHANGED <<ride_requests, notifications>>
        /\ Refetch(res.rides, ride_requests, {})
        /\ UNCHANGED <<ratingvars, presencevars>>

\* MyRides.updateRideStatus
updateRideStatus(u, rideId, status) ==
    LET res == UpdateRide(u, rideId, status)
    IN  /\ rides' = res.rides
        /\ notifications' = res.notifications
        /\ lastCall' = Call("updateRideStatus", rideId, status, res.error)
        /\ ride_requests' = res.ride_requests
        /\ Refetch(res.rides, res.ride_requests, {})
        /\ UNCHANGED <<ratingvars, presencevars>>

\* SearchRides.handleRequestRide with searchParams.passengers = n
handleRequestRide(u, rideId, n) ==
    LET res == InsertRideRequest(u, [ride_id |-> rideId, passenger_id |-> u,
                                     number_of_passengers |-> n, status |-> "pending"])
    IN  /\ Len(res.ride_requests) <= MaxRequests
        /\ ride_requests' = res.ride_requests
        /\ notifications' = res.notifications
        /\ lastCall' = Call("handleRequestRide", rideId, "", res.error)
        /\ UNCHANGED rides
        /\ Refetch(rides, res.ride_requests, InsertedRequests(res))
        /\ UNCHANGED <<ratingvars, presencevars>>

\* variant: a booking that succeeds takes its seat from the ride
handleTestBookingTakingSeat(u, rideId) ==
    LET res == InsertRideRequest(u, [ride_id |-> rideId, passenger_id |-> u,
                                     number_of_passengers |-> 1, status |-> "pending"])
        left == IF res.error = NoError /\ rideId \in DOMAIN rides
                THEN [rides EXCEPT ![rideId].available_seats = @ - 1]
                ELSE rides
    IN  /\ Len(res.ride_requests) <= MaxRequests
        /\ ride_requests' = res.ride_requests
        /\ notifications' = res.notifications
        /\ lastCall' = Call("handleTestBooking", rideId, "", res.error)
        /\ rides' = left
        /\ Refetch(left, res.ride_requests, InsertedRequests(res))
        /\ UNCHANGED <<ratingvars, presencevars>>

\* TestBookingFlow.handleTestBooking
handleTestBooking(u, rideId) ==
    LET res == InsertRideRequest(u, [ride_id |-> rideId, passenger_id |-> u,
                                     number_of_passengers |-> 1, status |-> "pending"])
    IN  /\ Len(res.ride_requests) <= MaxRequests
        /\ ride_requests' = res.ride_requests
        /\ notifications' = res.notifications
        /\ lastCall' = Call("handleTestBooking", rideId, "", res.error)
        /\ UNCHANGED rides
        /\ Refetch(rides, res.ride_requests, InsertedRequests(res))
        /\ UNCHANGED <<ratingvars, presencevars>>

\* NotificationCenter.handleRideRequest
handleRideRequest(u, requestId, action) ==
    LET res == UpdateRideRequest(u, requestId, action)
    IN  /\ ride_requests' = res.ride_requests
        /\ notifications' = res.notifications
        /\ lastCall' = Call("handleRideRequest", requestId, action, res.error)
        /\ UNCHANGED rides
        /\ Refetch(rides, res.ride_requests, UpdatedRequests(u, requestId, res))
        /\ UNCHANGED <<ratingvars, presencevars>>

\* a sequence without its i-th element, and with its i-th element replaced
Without(seq, i) == SubSeq(seq, 1, i - 1) \o SubSeq(seq, i + 1, Len(seq))
With(seq, i, x) == [seq EXCEPT ![i] = x]

\* a call of updateBookingStatus on the followed client whose UPDATE has
\* not been answered
Awaited(bookingId, status) ==
    [phase |-> "update", data |-> {bookingId}, rest |-> {status}]

\* MyBookings.updateBookingStatus on the followed client, up to its await:
\* the UPDATE is sent
updateBookingStatus_call(bookingId, status) ==
    /\ bookingsFetches' = Append(bookingsFetches, Awaited(bookingId, status))
    /\ Len(bookingsFetches') <= MaxFetches
    /\ UNCHANGED <<dbvars, viewvars, notificationCards, lastCall, ratingvars,
                   presencevars, channel, bookingsHeld>>

\* the same call after the component that made it was unmounted: its
\* UPDATE is still answered, and what the call does then to the state of
\* that component shows on no screen
Orphaned(call) == [call EXCEPT !.phase = "orphan"]

\* MyBookings.updateBookingStatus, from the answer of its UPDATE: when it
\* raised no error the component of the click calls fetchMyBookings.  The
\* click was on the followed client of Viewer, the call being the i-th of
\* its calls under way, or on another client (i = 0).
updateBookingStatus(u, bookingId, status, i) ==
    LET res == UpdateRideRequest(u, bookingId, status)
        followed == i \in DOMAIN bookingsFetches
        mounted == followed /\ bookingsFetches[i] = Awaited(bookingId, status)
    IN  /\ followed => bookingsFetches[i] \in {Awaited(bookingId, status),
                                                Orphaned(Awaited(bookingId, status))}
        /\ ride_requests' = res.ride_requests
        /\ notifications' = res.notifications
        /\ lastCall' = Call("updateBookingStatus", bookingId, status, res.error)
        /\ UNCHANGED rides
        /\ Views(rides, res.ride_requests)
        /\ fetchMyBookings(IF followed THEN Without(bookingsFetches, i)
                                       ELSE bookingsFetches,
                           mounted /\ res.error = NoError,
                           BookingsSignal(res.ride_requests,
                                          UpdatedRequests(u, bookingId, res)))
        /\ UNCHANGED <<ratingvars, presencevars, channel>>

\* NotificationCenter.markAsRead (the call records the flag it found)
markAsRead(u, notificationId) ==
    LET res == UpdateNotification(u, notificationId)
    IN  /\ notifications' = res.notifications
        /\ lastCall' = Call("markAsRead", notificationId,
                            IF notificationId \in DOMAIN notifications
                               /\ notifications[notificationId].is_read
                            THEN "read" ELSE "unread",
                            res.error)
        /\ UNCHANGED <<rides, ride_requests>>
        /\ Refetch(rides, ride_requests, {})
        /\ UNCHANGED <<ratingvars, presencevars>>

\* DriverAvailabilityList.fetchDrivers is called and its first request,
\* the select on rides, is sent: `own` by the component itself (its mount,
\* its status button) and once more by its channel when a change of a
\* profiles row is `signal`led
fetchDrivers(own, signal) ==
    /\ driversFetch' =
           driversFetch
           \o (IF own THEN <<Called>> ELSE <<>>)
           \o (IF driversChannel = "live" /\ signal THEN <<Called>> ELSE <<>>)
    /\ Len(driversFetch') <= MaxDriverFetches

\* a rating is submitted: INSERT INTO ratings, run to its commit.  The
\* UPDATE of the rated user's profile by the trigger of a committed insert
\* is a change of profiles, signalled to every open driver list
submitRating(u, row) ==
    LET res == InsertRating(u, row)
    IN  /\ Cardinality(res.ratings) <= MaxRatings
        /\ ratings' = res.ratings
        /\ profiles' = res.profiles
        /\ lastCall' = Call("submitRating", row.ride_id, "", res.error)
        /\ fetchDrivers(FALSE, res.error = NoError)
        /\ UNCHANGED <<dbvars, viewvars, notificationCards, tx, presence,
                       profileTexts, now, drivers, driversLoading, driversChannel,
                       statusUpdates, clientvars>>

\* the rows two in-flight statements cannot both insert
SameTriple(a, b) ==
    /\ a.ride_id = b.ride_id
    /\ a.rater_id = b.rater_id
    /\ a.rated_user_id = b.rated_user_id

\* the sessions whose INSERT INTO ratings has run and is not yet committed
InFlight == {s \in Users : tx[s].phase # "idle"}

\* READ COMMITTED: the INSERT and the UPDATE of its trigger run on u's
\* session.  The statement sees the committed ratings and its own row; an
\* insert of a triple another session has in flight waits for that
\* session.  The transaction stays open until commitRating.
beginRating(u, row) ==
    LET res == InsertRating(u, row)
    IN  /\ tx[u].phase = "idle"
        /\ \A s \in InFlight : ~SameTriple(tx[s].row, row)
        /\ res.error = NoError
           => Cardinality(ratings) + Cardinality(InFlight) < MaxRatings
        /\ tx' = [tx EXCEPT ![u] =
               IF res.error # NoError THEN NoTx
               ELSE [phase |-> "open", row |-> row,
                     profile |-> res.profiles[row.rated_user_id]]]
        /\ lastCall' = Call("beginRating", row.ride_id, "", res.error)
        /\ UNCHANGED <<dbvars, viewvars, notificationCards, ratings, profiles,
                       presencevars, clientvars>>

\* the transaction of u's session commits: its row and the profile row its
\* trigger wrote become the committed ones (the profile row is locked from
\* the trigger's write to the commit, so the writes of two sessions to one
\* profile land in commit order); the committed UPDATE of the profile row
\* is a change of profiles, signalled to every open driver list
commitRating(u) ==
    /\ tx[u].phase = "open"
    /\ ratings' = ratings \cup {tx[u].row}
    /\ profiles' = [profiles EXCEPT ![tx[u].row.rated_user_id] = tx[u].profile]
    /\ tx' = [tx EXCEPT ![u] = NoTx]
    /\ lastCall' = Call("commitRating", tx[u].row.ride_id, "", NoError)
    /\ fetchDrivers(FALSE, TRUE)
    /\ UNCHANGED <<dbvars, viewvars, notificationCards, presence, profileTexts,
                   now, drivers, driversLoading, driversChannel, statusUpdates,
                   clientvars>>

\* fetchDrivers, first read: the driver_id of the active rides
fetchDrivers_rides(i) ==
    /\ i \in DOMAIN driversFetch
    /\ driversFetch[i].phase = "called"
    /\ driversFetch' = With(driversFetch, i,
           [phase |-> "rides", data |-> ActiveDriverIds(rides), rest |-> {}])
    /\ UNCHANGED <<dbvars, viewvars, notificationCards, lastCall, ratingvars,
                   presence, profileTexts, now, drivers, driversLoading,
                   driversChannel, statusUpdates, clientvars>>

\* fetchDrivers, second read: the profiles of those ids.  With no profile
\* Promise.all has nothing to wait for and setDrivers([]) and
\* setLoading(false) follow at once.
fetchDrivers_profiles(i) ==
    /\ i \in DOMAIN driversFetch
    /\ driversFetch[i].phase = "rides"
    /\ LET rows == ProfilesIn(presence, driversFetch[i].data)
       IN  IF rows = {}
           THEN /\ drivers' = {}
                /\ driversLoading' = FALSE
                /\ driversFetch' = Without(driversFetch, i)
                /\ lastCall' = Call("fetchDrivers", 0, "", NoError)
           ELSE /\ driversFetch' = With(driversFetch, i,
                       [phase |-> "profiles", data |-> {}, rest |-> rows])
                /\ UNCHANGED <<drivers, driversLoading, lastCall>>
    /\ UNCHANGED <<dbvars, viewvars, notificationCards, ratingvars,
                   presence, profileTexts, now, driversChannel, statusUpdates,
                   clientvars>>

\* fetchDrivers, third read: one request per profile, answered in any
\* order, each the count of that driver's active rides; with the last
\* answer setDrivers replaces the list and setLoading(false) follows
fetchDrivers_counts(i, row) ==
    /\ i \in DOMAIN driversFetch
    /\ driversFetch[i].phase = "profiles"
    /\ row \in driversFetch[i].rest
    /\ LET counted == driversFetch[i].data \cup
                          {[user_id |-> row.user_id,
                            availability_status |-> row.availability_status,
                            active_rides_count |-> ActiveRidesCount(rides, row.user_id)]}
           rest == driversFetch[i].rest \ {row}
       IN  IF rest = {}
           THEN /\ drivers' = counted
                /\ driversLoading' = FALSE
                /\ driversFetch' = Without(driversFetch, i)
                /\ lastCall' = Call("fetchDrivers", 0, "", NoError)
           ELSE /\ driversFetch' = With(driversFetch, i,
                       [phase |-> "profiles", data |-> counted, rest |-> rest])
                /\ UNCHANGED <<drivers, driversLoading, lastCall>>
    /\ UNCHANGED <<dbvars, viewvars, notificationCards, ratingvars,
                   presence, profileTexts, now, driversChannel, statusUpdates,
                   clientvars>>

\* DriverAvailabilityList.updateAvailabilityStatus, up to its await: the
\* UPDATE is sent with the status of the button and the time of the
\* click, from the list the followed client has mounted (`list`) or from
\* a list of another client
updateAvailabilityStatus_call(u, status, list) ==
    /\ statusUpdates' = statusUpdates (+) SetToBag({[user_id |-> u,
                                                    availability_status |-> status,
                                                    last_seen |-> now,
                                                    list |-> list]})
    /\ BagCardinality(statusUpdates') <= MaxStatusUpdates
    /\ UNCHANGED <<dbvars, viewvars, notificationCards, lastCall, ratingvars,
                   presence, profileTexts, now, driversFetch, drivers,
                   driversLoading, driversChannel, clientvars>>

\* DriverAvailabilityList.updateAvailabilityStatus, from the answer of its
\* UPDATE: when it raised no error the component of the click calls
\* fetchDrivers (a call that shows on the followed client when that
\* component is its mounted `list`); the committed UPDATE of the caller's
\* row is a change of profiles, signalled to every open list
updateAvailabilityStatus(u, status, at, list) ==
    LET res == UpdatePresence(u, u, status, at)
        sent == [user_id |-> u, availability_status |-> status, last_seen |-> at,
                 list |-> list]
    IN  /\ BagIn(sent, statusUpdates)
        /\ statusUpdates' = statusUpdates (-) SetToBag({sent})
        /\ presence' = res.presence
        /\ lastCall' = Call("updateAvailabilityStatus", at, status, res.error)
        /\ fetchDrivers(list /\ res.error = NoError, res.error = NoError)
        /\ UNCHANGED <<dbvars, viewvars, notificationCards, ratingvars,
                       profileTexts, now, drivers, driversLoading, driversChannel,
                       clientvars>>

\* the calls of updateAvailabilityStatus under way once the list of the
\* followed client is unmounted: their UPDATEs are still answered, the
\* calls of fetchDrivers that follow set the state of a component that is
\* on no screen
Detached(updates) ==
    LET rows == {[x EXCEPT !.list = FALSE] : x \in BagToSet(updates)}
    IN  [x \in rows |-> CopiesIn(x, updates)
                        + CopiesIn([x EXCEPT !.list = TRUE], updates)]

\* EditProfile.handleSave with the form as it is at the click: a blank
\* username ends the call before any request; otherwise the UPDATE of
\* username, phone_number and bio of the caller's row, refused when
\* another profile has the username; the committed UPDATE is a change of
\* profiles, signalled to every open list.  (The check of the form reads
\* no state but the form, so the click and the answer are one step.)
handleSave(u, formData) ==
    IF trim(formData.username) = <<>>
    THEN /\ lastCall' = Call("handleSave", 0, "", "username_required")
         /\ UNCHANGED <<dbvars, viewvars, notificationCards, ratingvars,
                        presencevars, clientvars>>
    ELSE LET res == UpdateProfile(u, u,
                        [username     |-> trim(formData.username),
                         phone_number |-> OrNull(trim(formData.phone_number)),
                         bio          |-> OrNull(trim(formData.bio))])
         IN  /\ profileTexts' = res.profileTexts
             /\ lastCall' = Call("handleSave", 0, "", res.error)
             /\ fetchDrivers(FALSE, res.rows # {})
             /\ UNCHANGED <<dbvars, viewvars, notificationCards, ratingvars,
                            presence, now, drivers, driversLoading, driversChannel,
                            statusUpdates, clientvars>>

\* fetchMyBookings, its select: the user's requests, each with its ride,
\* as the store has them when the request is answered.  With no row
\* Promise.all has nothing to wait for and setBookings([]) follows at once.
fetchMyBookings_read(i) ==
    /\ i \in DOMAIN bookingsFetches
    /\ bookingsFetches[i].phase = "called"
    /\ LET data == MyBookingsOf(rides, ride_requests, Viewer)
       IN  IF data = {}
           THEN /\ bookingsHeld' = {}
                /\ bookingsFetches' = Without(bookingsFetches, i)
           ELSE /\ bookingsFetches' = With(bookingsFetches, i,
                       [phase |-> "answered", data |-> data, rest |-> {}])
                /\ UNCHANGED bookingsHeld
    /\ UNCHANGED <<dbvars, viewvars, notificationCards, lastCall, ratingvars,
                   presencevars, channel>>

\* fetchMyBookings, its end: the profile of each booking's driver has been
\* read and setBookings(processedBookings) replaces the list
bookingsArrive(i) ==
    /\ i \in DOMAIN bookingsFetches
    /\ bookingsFetches[i].phase = "answered"
    /\ bookingsHeld' = bookingsFetches[i].data
    /\ bookingsFetches' = Without(bookingsFetches, i)
    /\ UNCHANGED <<dbvars, viewvars, notificationCards, lastCall, ratingvars,
                   presencevars, channel>>

\* ------------------------------------------------------------- the actions
\* handle_new_user: the username each account signed up with
SignupUsername == ("u1" :> <<"a">>) @@ ("u2" :> <<"b">>) @@ ("u3" :> <<"c">>)

\* every account has its profile, offline since its creation; no client
\* of Viewer has opened the driver list or My Bookings
NoPresence ==
    /\ presence = [u \in Users |-> [availability_status |-> "offline", last_seen |-> 0]]
    /\ profileTexts = [u \in Users |->
           [username |-> SignupUsername[u], phone_number |-> Null, bio |-> Null]]
    /\ now = 0
    /\ driversFetch = <<>>
    /\ drivers = {}
    /\ driversLoading = TRUE
    /\ driversChannel = "closed"
    /\ statusUpdates = EmptyBag

NoSubscription ==
    /\ channel = "closed"
    /\ bookingsFetches = <<>>
    /\ bookingsHeld = {}

Init ==
    /\ rides = <<>>
    /\ ride_requests = <<>>
    /\ notifications = <<>>
    /\ searchRides = [u \in Users |-> {}]
    /\ testRides = [u \in Users |-> {}]
    /\ rideRequests = [u \in Users |-> {}]
    /\ bookings = [u \in Users |-> {}]
    /\ myRides = [u \in Users |-> {}]
    /\ lastCall = Call("init", 0, "", NoError)
    /\ ratings = {}
    /\ profiles = [u \in Users |-> [total_rating |-> 0, rating_count |-> 0]]
    /\ notificationCards = [u \in Users |-> {}]
    /\ tx = [u \in Users |-> NoTx]
    /\ NoPresence
    /\ NoSubscription

\* the Create Ride form is submitted
SubmitRide ==
    /\ Len(rides) < MaxRides
    /\ \E u \in Users, formData \in RideForms : handleSubmit(u, formData)

\* the Request Ride button of a listed ride (disabled on the user's own
\* ride), with the value of the passengers input at the click
RequestRide ==
    \E u \in Users, n \in 1..MaxPassengers :
        \E r \in searchRides[u] :
            /\ rides[r].driver_id # u
            /\ handleRequestRide(u, r, n)

\* the Test Book This Ride button of a listed test ride
TestBook ==
    \E u \in Users : \E r \in testRides[u] : handleTestBooking(u, r)

\* the Accept and Decline buttons of a listed pending request
AcceptOrDecline ==
    \E u \in Users, action \in {"accepted", "rejected"} :
        \E id \in rideRequests[u] : handleRideRequest(u, id, action)

\* the Cancel button of a listed booking, shown when canCancelBooking, on
\* a client other than the followed one: the click and, the row staying
\* on that screen, the answer of its UPDATE
CancelBooking ==
    \E u \in Users :
        \E b \in bookings[u] :
            /\ canCancelBooking(b)
            /\ updateBookingStatus(u, b.id, "cancelled", 0)

\* the Cancel button of a booking on the list the followed client holds
CancelHeldBooking ==
    \E b \in bookingsHeld :
        /\ canCancelBooking(b)
        /\ updateBookingStatus_call(b.id, "cancelled")

\* the UPDATE of a call of updateBookingStatus on the followed client is
\* answered, the component of the click being mounted or not
CancelHeldAnswered ==
    \E i \in DOMAIN bookingsFetches :
        /\ bookingsFetches[i].phase \in {"update", "orphan"}
        /\ \E id \in bookingsFetches[i].data, status \in bookingsFetches[i].rest :
               updateBookingStatus(Viewer, id, status, i)

\* the Mark as Completed and Cancel Ride buttons of MyRides, on a row of
\* the list `rides` whose status is 'active'.  fetchMyRides never fills
\* that list (MyRidesOf), so the step is never enabled and is no step of
\* the histories below.
ChangeRideStatus ==
    \E u \in Users, s \in {"completed", "cancelled"} :
        \E r \in myRides[u] :
            /\ canChangeRideStatus(r)
            /\ updateRideStatus(u, r.id, s)

\* an unread card of a listed notification is clicked
MarkRead ==
    \E u \in Users : \E k \in notificationCards[u] : markAsRead(u, k)

Next ==
    \/ SubmitRide
    \/ RequestRide
    \/ TestBook
    \/ AcceptOrDecline
    \/ CancelBooking
    \/ MarkRead

Spec == Init /\ [][Next]_vars

\* ------------------------------------------------- the rating histories
\* A store the statements of the handlers have left behind: MaxRatedRides
\* rides, each active or completed (updateRideStatus, which is no step of
\* these histories), the first with one pending request and its
\* notification; no client list fetched yet, no rating yet.  The accounts
\* are interchangeable: the first ride's driver is the one named u1.
RatedRides ==
    {rs \in [1..MaxRatedRides ->
                [driver_id : Users, origin : Origins, destination : Destinations,
                 departure_date : Dates, available_seats : {1},
                 price_per_seat : Prices, status : {"active", "completed"}]] :
        rs[1].driver_id = "u1"}

RatingsInit ==
    /\ rides \in RatedRides
    /\ ride_requests = <<[ride_id |-> 1,
                           passenger_id |-> IF rides[1].driver_id = "u1"
                                            THEN "u2" ELSE "u1",
                           number_of_passengers |-> 1, status |-> "pending"]>>
    /\ notifications = handle_new_ride_request(ride_requests[1], <<>>).notifications
    /\ searchRides = [u \in Users |-> {}]
    /\ testRides = [u \in Users |-> {}]
    /\ rideRequests = [u \in Users |-> {}]
    /\ bookings = [u \in Users |-> {}]
    /\ myRides = [u \in Users |-> {}]
    /\ lastCall = Call("init", 0, "", NoError)
    /\ ratings = {}
    /\ profiles = [u \in Users |-> [total_rating |-> 0, rating_count |-> 0]]
    /\ notificationCards = [u \in Users |-> {}]
    /\ tx = [u \in Users |-> NoTx]
    /\ NoPresence
    /\ NoSubscription

\* a user rates a user for a ride
SubmitRating ==
    \E u \in Users, r \in DOMAIN rides, rated \in Users, score \in Scores :
        submitRating(u, [ride_id |-> r, rater_id |-> u,
                         rated_user_id |-> rated, rating |-> score])

NextRatings == SubmitRating

\* one rating at a time
SpecRatings == RatingsInit /\ [][NextRatings]_vars

\* a session starts rating a user for a ride
BeginRating ==
    \E u \in Users, r \in DOMAIN rides, rated \in Users, score \in Scores :
        beginRating(u, [ride_id |-> r, rater_id |-> u,
                        rated_user_id |-> rated, rating |-> score])

\* a session's rating commits
CommitRating == \E u \in Users : commitRating(u)

NextConcurrentRatings ==
    \/ BeginRating
    \/ CommitRating

\* every ride of the store is completed
ConcurrentRatingsInit ==
    /\ RatingsInit
    /\ \A r \in DOMAIN rides : rides[r].status = "completed"

\* ratings by several sessions at once
SpecConcurrentRatings == ConcurrentRatingsInit /\ [][NextConcurrentRatings]_vars

\* every list has been fetched from the store as it is
ListsFetched ==
    /\ searchRides = [u \in Users |->
           UNION {SearchResult(rides, n) : n \in 1..MaxPassengers}]
    /\ testRides = [u \in Users |-> UNION OtherUsersRides(rides, u)]
    /\ rideRequests = [u \in Users |-> PendingRideRequests(rides, ride_requests, u)]
    /\ bookings = [u \in Users |->
           {b \in MyBookingsOf(rides, ride_requests, u) : canCancelBooking(b)}]
    /\ myRides = [u \in Users |-> {r \in MyRidesOf(rides, u) : canChangeRideStatus(r)}]
    /\ notificationCards = [u \in Users |->
           {k \in NotificationsOf(notifications, u) : ~notifications[k].is_read}]

\* ------------------------------------------------ the presence histories
\* A store the booking actions have left behind: u1 has offered a ride and
\* Viewer has requested it; every list has been fetched since.
PresenceInit ==
    /\ rides = <<[driver_id |-> "u1", origin |-> "Ikeja", destination |-> "Lekki",
                  departure_date |-> "2025-09-01", available_seats |-> MaxSeats,
                  price_per_seat |-> 0, status |-> "active"]>>
    /\ ride_requests = <<[ride_id |-> 1, passenger_id |-> Viewer,
                           number_of_passengers |-> 1, status |-> "pending"]>>
    /\ notifications = handle_new_ride_request(ride_requests[1], <<>>).notifications
    /\ ListsFetched
    /\ lastCall = Call("handleRequestRide", 1, "", NoError)
    /\ ratings = {}
    /\ profiles = [u \in Users |-> [total_rating |-> 0, rating_count |-> 0]]
    /\ tx = [u \in Users |-> NoTx]
    /\ NoPresence
    /\ NoSubscription

\* a status button of the driver list is clicked: by Viewer on the list
\* it has mounted, which renders the buttons once `loading` is false, by
\* another user on a list of their own
SetAvailability ==
    \E u \in Users, status \in AvailabilityStatuses :
        IF u = Viewer
        THEN /\ driversChannel # "closed"
             /\ ~driversLoading
             /\ updateAvailabilityStatus_call(u, status, TRUE)
        ELSE updateAvailabilityStatus_call(u, status, FALSE)

\* the UPDATE of a call of updateAvailabilityStatus is answered
AvailabilityAnswered ==
    \E sent \in BagToSet(statusUpdates) :
        updateAvailabilityStatus(sent.user_id, sent.availability_status,
                                 sent.last_seen, sent.list)

\* the texts typed into the Edit Profile form: nothing, a blank, a name
\* (one an account signed up with, one that is free) with a blank before it
UsernameInputs == {<<>>, <<" ">>, <<" ", "a">>, <<"d">>}
PhoneInputs == {<<>>, <<"1">>}
BioInputs == {<<>>}

ProfileForms ==
    [username : UsernameInputs, phone_number : PhoneInputs, bio : BioInputs]

\* the Save button of the Edit Profile dialog
SaveProfile == \E u \in Users, formData \in ProfileForms : handleSave(u, formData)

\* time passes
Tick ==
    /\ now < MaxTime
    /\ now' = now + 1
    /\ UNCHANGED <<dbvars, viewvars, notificationCards, lastCall, ratingvars,
                   presence, profileTexts, driversFetch, drivers, driversLoading,
                   driversChannel, statusUpdates, clientvars>>

\* Viewer opens the driver list, the mount of DriverAvailabilityList, with
\* drivers = [] and loading = true: fetchDrivers is called and the channel
\* subscribed.  Whether a change of profiles reaches the channel is
\* settled on the server, by the tables of its realtime publication; the
\* migrations set REPLICA IDENTITY FULL on the table and do not name the
\* publication, so the channel is either "live" or "mute"
OpenDriverList ==
    /\ driversChannel = "closed"
    /\ fetchDrivers(TRUE, FALSE)
    /\ driversChannel' \in ChannelStates \ {"closed"}
    /\ UNCHANGED <<dbvars, viewvars, notificationCards, lastCall, ratingvars,
                   presence, profileTexts, now, drivers, driversLoading,
                   statusUpdates, clientvars>>

\* Viewer leaves the driver list, the unmount of DriverAvailabilityList:
\* the effect's cleanup removes the channel and the state of the component
\* is gone (the next mount starts from drivers = [] and loading = true).
\* What a call under way sets afterwards is the state of a component that
\* is on no screen: its calls of fetchDrivers only read and are dropped,
\* its UPDATEs are still answered.
CloseDriverList ==
    /\ driversChannel # "closed"
    /\ driversChannel' = "closed"
    /\ drivers' = {}
    /\ driversLoading' = TRUE
    /\ driversFetch' = <<>>
    /\ statusUpdates' = Detached(statusUpdates)
    /\ UNCHANGED <<dbvars, viewvars, notificationCards, lastCall, ratingvars,
                   presence, profileTexts, now, clientvars>>

\* the reads of a call of fetchDrivers
LoadRides == \E i \in DOMAIN driversFetch : fetchDrivers_rides(i)

LoadProfiles == \E i \in DOMAIN driversFetch : fetchDrivers_profiles(i)

LoadCounts ==
    \E i \in DOMAIN driversFetch :
        \E row \in driversFetch[i].rest : fetchDrivers_counts(i, row)

NextPresence ==
    \/ SetAvailability
    \/ AvailabilityAnswered
    \/ Tick
    \/ OpenDriverList
    \/ CloseDriverList
    \/ LoadRides
    \/ LoadProfiles
    \/ LoadCounts

SpecPresence == PresenceInit /\ [][NextPresence]_vars

\* --------------------------------------------------- the driver list
\* a user offers a ride while the driver list is followed
OfferRide ==
    /\ Len(rides) < MaxListedRides
    /\ \E u \in Users, formData \in RideForms : handleSubmit(u, formData)

NextDrivers ==
    \/ OfferRide
    \/ SaveProfile
    \/ OpenDriverList
    \/ CloseDriverList
    \/ LoadRides
    \/ LoadProfiles
    \/ LoadCounts

SpecDrivers == Init /\ [][NextDrivers]_vars

\* ------------------------------------------------- the notification list
\* A store the booking actions have left behind: u1 has offered rides, u2
\* and u3 have requested them one after the other, MaxPolled requests in
\* all, each with its notification to u1; every list has been fetched.
PollInit ==
    /\ rides = [r \in 1..((MaxPolled + 1) \div 2) |->
                   [driver_id |-> "u1", origin |-> "Ikeja", destination |-> "Lekki",
                    departure_date |-> "2025-09-01", available_seats |-> MaxSeats,
                    price_per_seat |-> 0, status |-> "active"]]
    /\ ride_requests = [i \in 1..MaxPolled |->
                   [ride_id |-> (i + 1) \div 2,
                    passenger_id |-> IF i % 2 = 1 THEN "u2" ELSE "u3",
                    number_of_passengers |-> 1, status |-> "pending"]]
    /\ notifications = [i \in 1..MaxPolled |->
                   handle_new_ride_request(ride_requests[i], <<>>).notifications[1]]
    /\ ListsFetched
    /\ lastCall = Call("handleRequestRide", (MaxPolled + 1) \div 2, "", NoError)
    /\ ratings = {}
    /\ profiles = [u \in Users |-> [total_rating |-> 0, rating_count |-> 0]]
    /\ tx = [u \in Users |-> NoTx]
    /\ NoPresence
    /\ NoSubscription

NextPoll == MarkRead

SpecPoll == PollInit /\ [][NextPoll]_vars

\* --------------------------------------------------- the subscribed list
\* A store the Create Ride form has left behind: u1 has offered
\* MaxListedRides rides; every list has been fetched since; no request
\* yet, and no client of Viewer has opened My Bookings
ClientInit ==
    /\ rides = [r \in 1..MaxListedRides |->
                   [driver_id |-> "u1", origin |-> "Ikeja", destination |-> "Lekki",
                    departure_date |-> "2025-09-01", available_seats |-> MaxSeats,
                    price_per_seat |-> 0, status |-> "active"]]
    /\ ride_requests = <<>>
    /\ notifications = <<>>
    /\ ListsFetched
    /\ lastCall = Call("handleSubmit", MaxListedRides, "", NoError)
    /\ ratings = {}
    /\ profiles = [u \in Users |-> [total_rating |-> 0, rating_count |-> 0]]
    /\ tx = [u \in Users |-> NoTx]
    /\ NoPresence
    /\ NoSubscription

\* Viewer opens My Bookings, the mount of MyBookings, with bookings = []:
\* fetchMyBookings is called and the channel subscribed; as for the driver
\* list, the channel is "live" or "mute"
OpenMyBookings ==
    /\ channel = "closed"
    /\ channel' \in ChannelStates \ {"closed"}
    /\ fetchMyBookings(bookingsFetches, TRUE, FALSE)
    /\ UNCHANGED <<dbvars, viewvars, notificationCards, lastCall, ratingvars,
                   presencevars>>

\* a call whose UPDATE is still to be answered
IsUpdate(call) == call.phase \in {"update", "orphan"}

\* the calls under way once the component is unmounted: the selects of
\* fetchMyBookings only read and setBookings then sets the state of a
\* component that is on no screen; the UPDATEs are still answered
OrphanedCalls(calls) ==
    LET updates == SelectSeq(calls, IsUpdate)
    IN  [i \in DOMAIN updates |-> Orphaned(updates[i])]

\* Viewer leaves My Bookings, the unmount of MyBookings: the effect's
\* cleanup removes the channel and the state of the component is gone
\* (the next mount starts from bookings = [])
CloseMyBookings ==
    /\ channel # "closed"
    /\ channel' = "closed"
    /\ bookingsHeld' = {}
    /\ bookingsFetches' = OrphanedCalls(bookingsFetches)
    /\ UNCHANGED <<dbvars, viewvars, notificationCards, lastCall, ratingvars,
                   presencevars>>

\* a select of fetchMyBookings is answered
BookingsRead == \E i \in DOMAIN bookingsFetches : fetchMyBookings_read(i)

\* a call of fetchMyBookings ends
BookingsArrive == \E i \in DOMAIN bookingsFetches : bookingsArrive(i)

NextClient ==
    \/ RequestRide
    \/ CancelBooking
    \/ CancelHeldBooking
    \/ CancelHeldAnswered
    \/ OpenMyBookings
    \/ CloseMyBookings
    \/ BookingsRead
    \/ BookingsArrive

SpecClient == ClientInit /\ [][NextClient]_vars

TypeOK ==
    /\ Len(rides) <= MaxRides
    /\ Len(ride_requests) <= MaxRequests

\* ---------------------------------------------------------------- claims
\* the rows of a table that satisfy a condition, as a set of ids
RequestsOn(r) == {i \in DOMAIN ride_requests : ride_requests[i].ride_id = r}

RECURSIVE SeatsOf(_)
\* the seats requested by a set of requests
SeatsOf(ids) ==
    IF ids = {} THEN 0
    ELSE LET i == CHOOSE x \in ids : TRUE
         IN  ride_requests[i].number_of_passengers + SeatsOf(ids \ {i})

AcceptedOn(r) == {i \in RequestsOn(r) : ride_requests[i].status = "accepted"}

\* C1: for every listing, the seats of its accepted requests never exceed
\* its available_seats (so two accepts that together exceed capacity never
\* both succeed).
C1_AcceptedWithinCapacity ==
    \A r \in DOMAIN rides : SeatsOf(AcceptedOn(r)) <= rides[r].available_seats

\* an accept has run on a listing whose open requests exceed its capacity
C1_Witness ==
    /\ lastCall.op = "handleRideRequest"
    /\ lastCall.status = "accepted"
    /\ lastCall.id \in DOMAIN ride_requests
    /\ LET r == ride_requests[lastCall.id].ride_id
       IN  /\ Cardinality(RequestsOn(r)) >= 2
           /\ \A i \in RequestsOn(r) : ride_requests[i].status = "pending"
           /\ SeatsOf(RequestsOn(r)) > rides[r].available_seats

\* C2: at most one request per (ride id, passenger id); a create for a pair
\* that already has a request fails and leaves requests and notifications
\* as they were.
C2_OneRequestPerPair ==
    [][/\ \A i, j \in DOMAIN ride_requests' :
              (/\ ride_requests'[i].ride_id = ride_requests'[j].ride_id
               /\ ride_requests'[i].passenger_id = ride_requests'[j].passenger_id)
              => i = j
       /\ \A u \in Users, r \in DOMAIN rides, n \in 1..MaxPassengers :
              (/\ handleRequestRide(u, r, n) \/ handleTestBooking(u, r)
               /\ \E i \in RequestsOn(r) : ride_requests[i].passenger_id = u)
              => /\ lastCall'.error = "unique_violation"
                 /\ ride_requests' = ride_requests
                 /\ notifications' = notifications]_vars

\* a second create by the same passenger for the same ride has run and lost
C2_Witness ==
    /\ lastCall.op \in {"handleRequestRide", "handleTestBooking"}
    /\ lastCall.error = "unique_violation"
    /\ \E i \in RequestsOn(lastCall.id) : TRUE

\* C3: a request whose status is rejected or cancelled keeps that status in
\* every later step.
C3_TerminalStatusStays ==
    [][\A i \in DOMAIN ride_requests :
           ride_requests[i].status \in {"rejected", "cancelled"}
           => ride_requests'[i].status = ride_requests[i].status]_vars

\* the driver's Accept or Decline has run on a request that was already
\* cancelled (it was still on the driver's pending list)
C3_Witness ==
    /\ lastCall.op = "handleRideRequest"
    /\ lastCall.id \in DOMAIN ride_requests
    /\ ride_requests[lastCall.id].status = "cancelled"

\* the driver of the ride a request refers to
DriverOf(i) == rides[ride_requests[i].ride_id].driver_id

\* C4: setting a request to accepted as any user other than the listing's
\* driver fails with an authorization error and leaves the status unchanged.
C4_NonDriverAcceptDenied ==
    \A u \in Users, i \in DOMAIN ride_requests :
        u # DriverOf(i)
        => /\ UpdateRideRequest(u, i, "accepted").error = "rls_violation"
           /\ UpdateRideRequest(u, i, "accepted").ride_requests = ride_requests

\* the notification type the claim names for a status
TypeFor(action) ==
    IF action = "accepted" THEN "request_accepted" ELSE "request_rejected"

\* C5: when the listing's driver accepts (rejects) a pending request, the
\* call succeeds, the status becomes accepted (rejected) and exactly one
\* notification of type request_accepted (request_rejected) is created for
\* the requesting passenger.
C5_DriverDecisionNotifies ==
    [][\A u \in Users, i \in DOMAIN ride_requests, a \in {"accepted", "rejected"} :
           (/\ handleRideRequest(u, i, a)
            /\ u = DriverOf(i)
            /\ ride_requests[i].status = "pending")
           => /\ lastCall'.error = NoError
              /\ ride_requests'[i].status = a
              /\ Len(notifications') = Len(notifications) + 1
              /\ SubSeq(notifications', 1, Len(notifications)) = notifications
              /\ LET new == notifications'[Len(notifications')]
                 IN  /\ new.user_id = ride_requests[i].passenger_id
                     /\ new.type = TypeFor(a)
                     /\ new.ride_id = ride_requests[i].ride_id
                     /\ new.is_read = FALSE]_vars

\* the notifications of a type about a ride for a user
NotificationsFor(user, type, r) ==
    {k \in DOMAIN notifications : /\ notifications[k].user_id = user
                                  /\ notifications[k].type = type
                                  /\ notifications[k].ride_id = r}

\* every request has its ride_request notification and every accepted or
\* rejected request its decision notification, and conversely
TransitionsMatchNotifications ==
    /\ \A r \in DOMAIN rides :
           Cardinality(NotificationsFor(rides[r].driver_id, "ride_request", r))
               = Cardinality(RequestsOn(r))
    /\ \A i \in DOMAIN ride_requests :
           ride_requests[i].status \in {"accepted", "rejected"}
           => NotificationsFor(ride_requests[i].passenger_id,
                               TypeFor(ride_requests[i].status),
                               ride_requests[i].ride_id) # {}
    /\ \A k \in DOMAIN notifications :
           /\ notifications[k].type = "ride_request"
              => /\ notifications[k].ride_id \in DOMAIN rides
                 /\ notifications[k].user_id = rides[notifications[k].ride_id].driver_id
           /\ notifications[k].type # "ride_request"
              => \E i \in RequestsOn(notifications[k].ride_id) :
                     /\ ride_requests[i].passenger_id = notifications[k].user_id
                     /\ ride_requests[i].status # "pending"

\* C6: a booking transition and its notification commit or fail together:
\* requests and notifications always match, and a statement that ends in
\* an error leaves both tables as they were.
C6_TransitionAndNotificationAtomic ==
    [][/\ TransitionsMatchNotifications'
       /\ lastCall'.error # NoError
          => /\ ride_requests' = ride_requests
             /\ notifications' = notifications]_vars

\* writing the notification of an accept or reject has failed and the
\* request is still pending
C6_Witness ==
    /\ lastCall.op = "handleRideRequest"
    /\ lastCall.error = "check_violation"
    /\ lastCall.id \in DOMAIN ride_requests
    /\ ride_requests[lastCall.id].status = "pending"
    /\ Len(notifications) = Len(ride_requests)

\* the requests whose status a step changes to accepted or to rejected
Decided ==
    {i \in DOMAIN ride_requests :
        /\ ride_requests'[i].status # ride_requests[i].status
        /\ ride_requests'[i].status \in {"accepted", "rejected"}}

\* C7: every step adds exactly one notification per request it creates and
\* per request it moves to accepted or rejected, and none otherwise (a
\* status update that keeps the status adds none).
C7_OneNotificationPerTransition ==
    [][/\ Len(ride_requests') >= Len(ride_requests)
       /\ Len(notifications') =
              Len(notifications)
              + (Len(ride_requests') - Len(ride_requests))
              + Cardinality(Decided)]_vars

\* a cancel has run on a request that was created earlier: one
\* notification per request, none for the cancel
C7_Witness ==
    /\ lastCall.op = "updateBookingStatus"
    /\ lastCall.error = NoError
    /\ lastCall.id \in DOMAIN ride_requests
    /\ ride_requests[lastCall.id].status = "cancelled"
    /\ Len(ride_requests) = 2
    /\ Len(notifications) = 2

\* C8: a successful create appends the request with status pending and
\* exactly one ride_request notification for the driver of that ride.
C8_CreateNotifiesDriver ==
    [][\A u \in Users, r \in DOMAIN rides, n \in 1..MaxPassengers :
           (/\ handleRequestRide(u, r, n) \/ handleTestBooking(u, r)
            /\ lastCall'.error = NoError)
           => /\ Len(ride_requests') = Len(ride_requests) + 1
              /\ SubSeq(ride_requests', 1, Len(ride_requests)) = ride_requests
              /\ LET row == ride_requests'[Len(ride_requests')]
                 IN  /\ row.status = "pending"
                     /\ row.ride_id = r
                     /\ row.passenger_id = u
              /\ Len(notifications') = Len(notifications) + 1
              /\ SubSeq(notifications', 1, Len(notifications)) = notifications
              /\ LET new == notifications'[Len(notifications')]
                 IN  /\ new.user_id = rides[r].driver_id
                     /\ new.type = "ride_request"
                     /\ new.ride_id = r
                     /\ new.is_read = FALSE]_vars

\* a create has succeeded: the newest request and the newest notification
C8_Witness ==
    /\ lastCall.op \in {"handleRequestRide", "handleTestBooking"}
    /\ lastCall.error = NoError
    /\ Len(ride_requests) >= 1
    /\ ride_requests[Len(ride_requests)].ride_id = lastCall.id
    /\ notifications[Len(notifications)].type = "ride_request"

\* the errors the store reports as a conflict
ConflictErrors == {"unique_violation", "foreign_key_violation"}

\* C9: a create fails with a conflict error, writing nothing, when the
\* listing is not active or the seats requested exceed available_seats.
C9_CreateChecksListing ==
    [][\A u \in Users, r \in DOMAIN rides, n \in 1..MaxPassengers :
           (\/ /\ handleRequestRide(u, r, n)
               /\ (rides[r].status # "active" \/ n > rides[r].available_seats)
            \/ /\ handleTestBooking(u, r)
               /\ (rides[r].status # "active" \/ 1 > rides[r].available_seats))
           => /\ lastCall'.error \in ConflictErrors
              /\ ride_requests' = ride_requests
              /\ notifications' = notifications]_vars

\* C10: of two creates by different passengers for the same ride whose
\* seats together exceed the ride's capacity, exactly one succeeds: the
\* one that comes second fails with a conflict error.
C10_SecondCreateOverCapacityFails ==
    [][\A u \in Users, r \in DOMAIN rides, n \in 1..MaxPassengers :
           (/\ handleRequestRide(u, r, n)
            /\ \E i \in RequestsOn(r) :
                   /\ ride_requests[i].passenger_id # u
                   /\ ride_requests[i].status = "pending"
                   /\ ride_requests[i].number_of_passengers + n > rides[r].available_seats)
           => /\ lastCall'.error \in ConflictErrors
              /\ ride_requests' = ride_requests]_vars

\* the rating rows a user can submit
RatingRows ==
    [ride_id : DOMAIN rides, rater_id : Users, rated_user_id : Users, rating : Scores]

\* the rater drove the ride or has an accepted request on it
Participated(row) ==
    \/ rides[row.ride_id].driver_id = row.rater_id
    \/ \E i \in RequestsOn(row.ride_id) :
           /\ ride_requests[i].passenger_id = row.rater_id
           /\ ride_requests[i].status = "accepted"

\* the ride is completed and the rater participated in it
MayRate(row) ==
    /\ rides[row.ride_id].status = "completed"
    /\ Participated(row)

\* C11: a rating is inserted only if, at that moment, its ride is
\* completed and its rater is the ride's driver or a passenger with an
\* accepted request on it; otherwise the call fails and ratings and every
\* profile's aggregate stay as they were.
C11_RatingOnlyForCompletedRide ==
    \A row \in RatingRows :
        LET res == InsertRating(row.rater_id, row)
        IN  /\ res.error = NoError => (MayRate(row) /\ res.ratings = ratings \cup {row})
            /\ ~MayRate(row)
               => /\ res.error # NoError
                  /\ res.ratings = ratings
                  /\ res.profiles = profiles

\* a rating for an active ride has just failed, in a store that holds a
\* rating of a completed ride
C11_Witness ==
    /\ lastCall.op = "submitRating"
    /\ lastCall.error = "rls_violation"
    /\ rides[lastCall.id].status = "active"
    /\ ratings # {}

\* C12: in every history, sequential or interleaved, at most one rating
\* exists per (ride, rater, rated user); a submission for a triple that is
\* already rated fails and leaves ratings and profiles as they were.
C12_OneRatingPerTriple ==
    /\ \A a, b \in ratings : SameTriple(a, b) => a = b
    /\ \A row \in RatingRows :
           (\E x \in ratings : SameTriple(x, row))
           => LET res == InsertRating(row.rater_id, row)
              IN  /\ res.error # NoError
                  /\ res.ratings = ratings
                  /\ res.profiles = profiles

\* a second submission for a rated triple has just lost
C12_Witness ==
    /\ lastCall.op = "beginRating"
    /\ lastCall.error = "unique_violation"
    /\ \E x \in ratings : x.ride_id = lastCall.id

\* C13 as stated: after a successful submitRating the rated user's
\* rating_count is the number of their ratings and total_rating is exactly
\* their arithmetic mean; no other profile changes.
C13_AggregateIsExactMean ==
    \A row \in RatingRows :
        LET res == InsertRating(row.rater_id, row)
            mine == RatingsOf(res.ratings, row.rated_user_id)
            p == res.profiles[row.rated_user_id]
        IN  res.error = NoError
            => /\ p.rating_count = Cardinality(mine)
               /\ p.total_rating * Cardinality(mine) = 100 * SumOfRatings(mine)
               /\ \A u \in Users \ {row.rated_user_id} :
                      res.profiles[u] = profiles[u]

\* the distance between a stored total_rating (hundredths) and the mean of
\* a set of ratings, in units of 1 / (100 * number of ratings)
OffMean(total, rs) ==
    IF total * Cardinality(rs) >= 100 * SumOfRatings(rs)
    THEN total * Cardinality(rs) - 100 * SumOfRatings(rs)
    ELSE 100 * SumOfRatings(rs) - total * Cardinality(rs)

\* the profile p carries the count of rs and its mean to the nearest
\* hundredth
AggregateOf(p, rs) ==
    /\ p.rating_count = Cardinality(rs)
    /\ 2 * OffMean(p.total_rating, rs) <= Cardinality(rs)

\* C13, amended: after a successful submitRating the rated user's
\* rating_count is the number of their ratings and total_rating is their
\* arithmetic mean rounded to two decimal places; no other profile changes.
C13_AggregateIsRoundedMean ==
    \A row \in RatingRows :
        LET res == InsertRating(row.rater_id, row)
        IN  res.error = NoError
            => /\ AggregateOf(res.profiles[row.rated_user_id],
                              RatingsOf(res.ratings, row.rated_user_id))
               /\ \A u \in Users \ {row.rated_user_id} :
                      res.profiles[u] = profiles[u]

\* a rating has just been added and a user's three ratings have a mean
\* that two decimal places do not hold
C13_Witness ==
    /\ lastCall.op = "submitRating"
    /\ lastCall.error = NoError
    /\ \E u \in Users :
           /\ Cardinality(RatingsOf(ratings, u)) = 3
           /\ profiles[u].rating_count = 3
           /\ OffMean(profiles[u].total_rating, RatingsOf(ratings, u)) # 0

\* C14: once every concurrent rating has committed, every profile carries
\* the count and the (rounded) mean of all the ratings of its user.
C14_ConcurrentRatingsAllCounted ==
    InFlight = {}
    => \A u \in Users : AggregateOf(profiles[u], RatingsOf(ratings, u))

\* C15: the statement of updateRideStatus changes the status of a ride
\* only when that status is active: a completed or cancelled ride keeps
\* its status.
C15_RideStatusOnlyLeavesActive ==
    \A u \in Users, r \in DOMAIN rides, s \in {"completed", "cancelled"} :
        UpdateRide(u, r, s).rides[r].status # rides[r].status
        => rides[r].status = "active"

\* C16: a status update of a ride by a user who is not its driver fails
\* with an authorization error and leaves the ride as it was.
C16_NonOwnerSetStatusDenied ==
    \A u \in Users, r \in DOMAIN rides, s \in {"completed", "cancelled"} :
        u # rides[r].driver_id
        => /\ UpdateRide(u, r, s).error = "rls_violation"
           /\ UpdateRide(u, r, s).rides = rides

\* C17: the statement of updateBookingStatus makes a request cancelled
\* only from pending or accepted, only for its passenger or the ride's
\* driver, and only while the ride is active.
C17_CancelOnlyWhileRideActive ==
    \A u \in Users, i \in DOMAIN ride_requests :
        (/\ UpdateRideRequest(u, i, "cancelled").ride_requests[i].status = "cancelled"
         /\ ride_requests[i].status # "cancelled")
        => /\ ride_requests[i].status \in {"pending", "accepted"}
           /\ rides[ride_requests[i].ride_id].status = "active"
           /\ u \in {ride_requests[i].passenger_id, DriverOf(i)}

\* C18: marking a notification read a second time raises no error and
\* changes nothing; the first time sets its flag and changes nothing else.
C18_MarkReadIdempotent ==
    [][\A u \in Users, k \in DOMAIN notifications :
           markAsRead(u, k)
           => /\ lastCall'.error = NoError
              /\ UNCHANGED <<rides, ride_requests, ratings, profiles>>
              /\ notifications[k].is_read => notifications' = notifications
              /\ (~notifications[k].is_read /\ u = notifications[k].user_id)
                 => notifications' = [notifications EXCEPT ![k].is_read = TRUE]]_vars

\* a notification that was already read has just been marked read again
C18_Witness ==
    /\ lastCall.op = "markAsRead"
    /\ lastCall.status = "read"
    /\ lastCall.error = NoError
    /\ lastCall.id \in DOMAIN notifications
    /\ notifications[lastCall.id].is_read

\* C19: marking a notification read as a user who is not its recipient
\* fails with an authorization error and leaves the flag as it was.
C19_NonRecipientMarkReadDenied ==
    \A u \in Users, k \in DOMAIN notifications :
        u # notifications[k].user_id
        => /\ UpdateNotification(u, k).error = "rls_violation"
           /\ UpdateNotification(u, k).notifications = notifications

\* the seat numbers an insert into rides may carry
SeatInputs == (0 - 1)..MaxSeats
PriceInputs == {0 - 1, 0}

\* C20: every ride has available_seats >= 0, in every reachable state and
\* after any insert into rides the store accepts.
C20_SeatsNeverNegative ==
    /\ \A r \in DOMAIN rides : rides[r].available_seats >= 0
    /\ \A u \in Users, seats \in SeatInputs, price \in PriceInputs :
           LET res == InsertRide(u, [driver_id |-> u, origin |-> "Ikeja",
                                     destination |-> "Lekki",
                                     departure_date |-> "2025-09-01",
                                     available_seats |-> seats,
                                     price_per_seat |-> price, status |-> "active"])
           IN  \A r \in DOMAIN res.rides : res.rides[r].available_seats >= 0

\* a ride whose requests ask for more seats than it has, some of them
\* cancelled again: its available_seats is as it was created
C20_Witness ==
    \E r \in DOMAIN rides :
        /\ SeatsOf(RequestsOn(r)) > rides[r].available_seats
        /\ \E i \in RequestsOn(r) : ride_requests[i].status = "cancelled"
        /\ rides[r].available_seats >= 1

\* the fields of a notification that identify it: everything but the flag
Identity(n) ==
    [user_id |-> n.user_id, type |-> n.type, title |-> n.title,
     message |-> n.message, ride_id |-> n.ride_id]

\* C21: once a notification exists, no step changes its recipient, type,
\* title, message or ride id; its read flag changes in markAsRead only, and
\* markAsRead changes the flag of the notification it names and of no
\* other.
C21_OnlyReadFlagOfNamedChanges ==
    [][\A k \in DOMAIN notifications :
          /\ k \in DOMAIN notifications'
          /\ Identity(notifications'[k]) = Identity(notifications[k])
          /\ notifications'[k].is_read # notifications[k].is_read
                 => lastCall'.op = "markAsRead" /\ lastCall'.id = k]_vars

\* a driver holds two notifications; one was marked read, the other is unread
C21_Witness ==
    /\ lastCall.op = "markAsRead"
    /\ \E k, j \in DOMAIN notifications :
          /\ k # j
          /\ notifications[k].user_id = notifications[j].user_id
          /\ notifications[k].is_read
          /\ ~notifications[j].is_read

\* C22: a step in which a request turns cancelled leaves the
\* notifications as they were: none is created, none is changed.
C22_CancelWritesNoNotification ==
    [][(\E i \in DOMAIN ride_requests :
            /\ ride_requests[i].status # "cancelled"
            /\ ride_requests'[i].status = "cancelled")
       => notifications' = notifications]_vars

\* a booking was cancelled while the driver's notification of it exists
C22_Witness ==
    /\ lastCall.op = "updateBookingStatus"
    /\ lastCall.error = NoError
    /\ lastCall.id \in DOMAIN ride_requests
    /\ ride_requests[lastCall.id].status = "cancelled"
    /\ \E k \in DOMAIN notifications :
          notifications[k].ride_id = ride_requests[lastCall.id].ride_id

\* C23: every notification in the store has a type of the declared
\* enumeration.
C23_NotificationTypeDeclared ==
    \A k \in DOMAIN notifications : notifications[k].type \in NotificationTypes

\* the trigger of an accept or a decline tried to write its notification
\* and the store, which holds a notification already, refused the type
C23_Witness ==
    /\ lastCall.op = "handleRideRequest"
    /\ lastCall.error = "check_violation"
    /\ notifications # <<>>
    /\ \E i \in DOMAIN ride_requests : ride_requests[i].status = "pending"

\* the requests of the store, each with any status of the schema: the
\* statuses the handlers leave and accepted, which the driver's Accept is
\* to give
RequestsInAnyStatus ==
    {[i \in DOMAIN ride_requests |-> [ride_requests[i] EXCEPT !.status = f[i]]] :
        f \in [DOMAIN ride_requests -> RequestStatuses]}

\* C27: the statement of updateRideStatus, with its trigger, changes the
\* status of the ride it names and nothing else: every request, on that
\* ride or another, pending, accepted or closed, keeps its status and its
\* other fields, no notification is created or changed, and the other
\* fields of the ride and the other rides stay as they were.
C27_RideStatusChangeTouchesOnlyStatus ==
    \A u \in Users, r \in DOMAIN rides, s \in {"completed", "cancelled"} :
        \A reqs \in RequestsInAnyStatus :
            LET res == UpdateRideWith(reqs, u, r, s)
            IN  /\ res.ride_requests = reqs
                /\ res.notifications = notifications
                /\ DOMAIN res.rides = DOMAIN rides
                /\ \A x \in DOMAIN rides :
                       IF x = r
                       THEN res.rides[x] = [rides[x] EXCEPT !.status = res.rides[x].status]
                       ELSE res.rides[x] = rides[x]

\* a ride with two requests, one of them pending, and their
\* notifications, which the statement of its driver cancels: the ride is
\* cancelled and the pending request is still pending; with one of the
\* requests accepted and the other pending the statement leaves the one
\* accepted and the other pending
C27_Witness ==
    \E r \in DOMAIN rides :
        LET res == UpdateRide(rides[r].driver_id, r, "cancelled")
        IN  /\ Cardinality(RequestsOn(r)) = 2
            /\ \E k \in DOMAIN notifications : notifications[k].ride_id = r
            /\ res.error = NoError
            /\ res.rides[r].status = "cancelled"
            /\ \E i \in RequestsOn(r) :
                   /\ ride_requests[i].status = "pending"
                   /\ res.ride_requests[i].status = "pending"
            /\ \E reqs \in RequestsInAnyStatus : \E i, j \in RequestsOn(r) :
                   LET held == UpdateRideWith(reqs, rides[r].driver_id, r, "cancelled")
                   IN  /\ reqs[i].status = "accepted"
                       /\ reqs[j].status = "pending"
                       /\ held.error = NoError
                       /\ held.rides[r].status = "cancelled"
                       /\ held.ride_requests[i].status = "accepted"
                       /\ held.ride_requests[j].status = "pending"

\* the handlers that create, accept, reject and cancel a booking
BookingOps ==
    {"handleRequestRide", "handleTestBooking", "handleRideRequest", "updateBookingStatus"}

\* C28: a step of a booking handler leaves the available_seats of every
\* ride as it was.
C28_BookingKeepsAvailableSeats ==
    [][lastCall'.op \in BookingOps
       => /\ DOMAIN rides' = DOMAIN rides
          /\ \A r \in DOMAIN rides :
                rides'[r].available_seats = rides[r].available_seats]_vars

\* a booking was created on a ride and the ride still offers every seat
C28_Witness ==
    /\ lastCall.op \in {"handleRequestRide", "handleTestBooking"}
    /\ lastCall.error = NoError
    /\ lastCall.id \in DOMAIN rides
    /\ RequestsOn(lastCall.id) # {}
    /\ rides[lastCall.id].available_seats = MaxSeats

\* C30: no request has as its passenger the driver of its ride.
C30_NoRequestOnOwnRide ==
    \A i \in DOMAIN ride_requests : ride_requests[i].passenger_id # DriverOf(i)

\* a booking made from the search list and one made from the test list
C30_Witness ==
    /\ lastCall.op = "handleTestBooking"
    /\ lastCall.error = NoError
    /\ Len(ride_requests) = MaxRequests

ToBeCounted(call) ==
    IF call.phase = "rides" THEN call.data
    ELSE IF call.phase = "profiles" THEN {row.user_id : row \in call.rest}
    ELSE {}

\* C25: every driver on the list fetchDrivers has set has at least one
\* active ride counted, and when fetchDrivers has just set the list every
\* user with an active ride is on it; the count of a driver that a call
\* under way is still to read is at least 1 also when a change of the
\* status of a listing, the statement of updateRideStatus of that driver,
\* is answered between the reads.
C25_ListedDriversHaveActiveRides ==
    /\ \A d \in drivers : d.active_rides_count >= 1
    /\ lastCall.op = "fetchDrivers"
           => \A u \in Users :
                  ActiveRidesCount(rides, u) >= 1 => \E d \in drivers : d.user_id = u
    /\ \A i \in DOMAIN driversFetch :
           \A u \in ToBeCounted(driversFetch[i]), r \in DOMAIN rides,
              s \in {"completed", "cancelled"} :
               ActiveRidesCount(UpdateRide(u, r, s).rides, u) >= 1

\* the notifications of a user in the store
NotificationsTo(u) == {k \in DOMAIN notifications : notifications[k].user_id = u}

\* a sequence of notification ids runs from the newest to the oldest
Descending(list) == \A i, j \in DOMAIN list : i < j => list[i] > list[j]

\* C26 as stated: fetchNotifications gives a user exactly the unread
\* notifications addressed to them, the newest first, and the count shown
\* is the number of those.
C26_ListIsTheUnread ==
    \A u \in Users :
        LET res == fetchNotifications(notifications, u)
            unread == {k \in NotificationsTo(u) : ~notifications[k].is_read}
        IN  /\ {res.notifications[i] : i \in DOMAIN res.notifications} = unread
            /\ Descending(res.notifications)
            /\ res.unreadCount = Cardinality(unread)

\* C26 amended: fetchNotifications gives a user the NotificationLimit most
\* recent notifications addressed to them, read or unread, the newest
\* first, and the count shown is the number of unread ones among those.
C26_ListIsTheNewestTen ==
    \A u \in Users :
        LET res == fetchNotifications(notifications, u)
            listed == {res.notifications[i] : i \in DOMAIN res.notifications}
        IN  /\ listed \subseteq NotificationsTo(u)
            /\ Descending(res.notifications)
            /\ Len(res.notifications) =
                   IF Cardinality(NotificationsTo(u)) < NotificationLimit
                   THEN Cardinality(NotificationsTo(u)) ELSE NotificationLimit
            /\ \A k \in NotificationsTo(u) \ listed : \A x \in listed : k < x
            /\ res.unreadCount = Cardinality({k \in listed : ~notifications[k].is_read})

\* u1 has more notifications than the list takes, read and unread ones
\* among the listed, and an unread one that is not listed
C26_Witness ==
    LET res == fetchNotifications(notifications, "u1")
    IN  /\ Len(res.notifications) = NotificationLimit
        /\ Cardinality(NotificationsTo("u1")) > NotificationLimit
        /\ res.unreadCount > 0
        /\ res.unreadCount < NotificationLimit
        /\ ~notifications[1].is_read

\* the bookings of a list: which requests, each with its status
BookingRows(list) == {[id |-> b.id, status |-> b.status] : b \in list}

\* the list is the passenger's requests of a store, each with the status
\* it has there
HeldIsStore(list, rs, reqs) ==
    BookingRows(list) = BookingRows(MyBookingsOf(rs, reqs, Viewer))

\* C29: whatever the order in which the responses of overlapping calls of
\* fetchMyBookings arrive, the response that arrives when no other call is
\* under way leaves the client with the store's state: a list that was
\* the passenger's requests of the store before it is so after it.  The
\* statement is made of the calls the client starts itself, at its mount
\* and in its Cancel handler, on a channel that brings no event: it then
\* depends on no publication of the server.
C29_HeldListIsTheStore ==
    [][\A i \in DOMAIN bookingsFetches :
           (/\ channel = "mute"
            /\ bookingsArrive(i)
            /\ bookingsFetches' = <<>>
            /\ HeldIsStore(bookingsHeld, rides, ride_requests))
           => HeldIsStore(bookingsHeld', rides', ride_requests')]_vars

====
